---- MODULE Spec2Model ----
(***************************************************************************)
(* Model of idb/client/grpc.py: the GrpcClient transfer operations         *)
(* (install, push, add_media, pull, hid), the log_and_handle_exceptions    *)
(* wrapper that precedes each of them, and the streams they drive.         *)
(*                                                                         *)
(* Every operation is a coroutine.  One action of the model is one         *)
(* resumption of a coroutine: the awaited transport call completes and     *)
(* the synchronous code that follows it runs up to the next await.         *)
(*                                                                         *)
(* The operation of task A is followed step by step.  Other operations     *)
(* may be called on the same GrpcClient while it is in flight.  Each       *)
(* operation works on a stream of its own, so the only state another       *)
(* operation shares with A is the client's companion_info, channel and     *)
(* stub, which its func_wrapper overwrites (action OtherCall).             *)
(***************************************************************************)
EXTENDS Naturals, Sequences, FiniteSets, TLC

(* ------------------------------ bounds -------------------------------- *)
\* longest list of source paths handed to push / add_media
MaxPaths == 2
\* largest number of chunks of an in-memory bundle, and of a pulled archive
MaxChunks == 2
\* longest HID event sequence
MaxEvents == 2
\* channels created and not closed that are counted before no further call
\* is followed
MaxChannels == 4

(* ------------------------------ inputs -------------------------------- *)
\* the caller tasks whose operation is followed step by step
Ops == {"A"}

\* filesystem entries named by the callers, and those that exist
Paths == {"a.txt", "b.txt", "nope.txt"}
Existing == {"a.txt", "b.txt", "app.ipa"}

\* Bundle = Union[str, IO]; a str is kept as (scheme, path) the way
\* urllib.parse.urlparse splits it
Bundles ==
    { [type |-> "str", scheme |-> "https", path |-> "host/app.ipa", nchunks |-> 0],
      [type |-> "str", scheme |-> "", path |-> "app.ipa", nchunks |-> 0],
      [type |-> "str", scheme |-> "", path |-> "gone.ipa", nchunks |-> 0] }
    \cup { [type |-> "io", scheme |-> "", path |-> "", nchunks |-> n] : n \in 0..MaxChunks }

\* InstallRequest.APP .. FRAMEWORK, lines 327-351
Destinations == {"APP", "XCTEST", "DYLIB", "DSYM", "FRAMEWORK"}

HIDEvents == {"down", "up"}

RECURSIVE SeqsUpTo(_, _)
SeqsUpTo(S, n) ==
    IF n = 0 THEN { <<>> }
    ELSE LET shorter == SeqsUpTo(S, n - 1)
         IN  shorter \cup { Append(s, x) : s \in { t \in shorter : Len(t) = n - 1 }, x \in S }

NoBundle == [type |-> "none", scheme |-> "", path |-> "", nchunks |-> 0]
NoArgs == [bundle |-> NoBundle, destination |-> "", paths |-> <<>>, events |-> <<>>,
           permissions |-> {}]

\* permission names a caller may pass to approve
PermissionNames == {"photos", "camera", "contacts", "location"}

(* --------------------------- error kinds ------------------------------ *)
\* grpclib.exceptions imported at line 14
TransportErrors == {"GRPCError", "ProtocolError", "StreamTerminatedError"}

(* ------------------------------ state --------------------------------- *)
VARIABLES
    companion_info,  \* client.companion_info: whether it was set, and its is_local
    channel,         \* client.channel / client.stub: the task whose wrapper made it
    op,              \* op[o]: the client method running in task o
    args,            \* args[o]: its arguments
    pc,              \* pc[o]: the await the coroutine is suspended at
    locals,          \* locals[o]: generator, loop index, request of the coroutine
    streams,         \* streams[o]: the streams the operation has opened, in order
    outcome,         \* outcome[o]: "none", "ok" or the exception the caller receives
    hist,            \* hist[o]: what the wrapper looked up and what the body read
    wrapped,         \* wrapped[o]: lookups done and channels made by the wrappers of the call
    unclosed,        \* channels made by the wrappers and not closed
    daemon_channel,  \* client.daemon_channel: "None" or the call that made it
    daemon_stub,     \* client.daemon_stub: "None" or the call that made it
    daemon_made,     \* the provide_client calls that made a daemon channel and stub
    ppc,             \* ppc[c]: where the provide_client call c is
    provided         \* provided[c]: what provide_client returned to c

vars == <<companion_info, channel, op, args, pc, locals, streams, outcome, hist,
          wrapped, unclosed, daemon_channel, daemon_stub, daemon_made, ppc, provided>>

(* ------------------------------ frames -------------------------------- *)
\* the request messages of idb_pb2, by the field that is set
Metadata(v)  == [kind |-> "Metadata",  val |-> v]
PathRef(p)   == [kind |-> "PathRef",   val |-> p]
URLRef(u)    == [kind |-> "URLRef",    val |-> u]
DataChunk(c) == [kind |-> "DataChunk", val |-> c]
HIDFrame(e)  == [kind |-> "HIDEvent",  val |-> e]
PullRequest(dst_path) == [kind |-> "PullRequest", val |-> dst_path]

dest_path == "/dst"
bundle_id == "com.app"

\* Path(bundle).resolve(strict=True): the absolute path of an existing entry
Resolve(path) == "/cwd/" \o path

\* str(bundle) of a str bundle, as handed to Payload(url=bundle)
BundleStr(bundle) ==
    IF bundle.scheme = "" THEN bundle.path ELSE bundle.scheme \o "://" \o bundle.path

ChunkName(k) == IF k = 1 THEN "c1" ELSE IF k = 2 THEN "c2" ELSE IF k = 3 THEN "c3" ELSE "c4"

(* ------------------------ frame generators ---------------------------- *)
\* A generator is the frames it still has to yield and the error it raises
\* once they are yielded ("" when it ends normally).
Generator(frames, err) == [frames |-> frames, err |-> err]
NoGenerator == Generator(<<>>, "")

\* idb.common.install.generate_requests: yields the requests of the list
generate_requests(requests) == Generator(requests, "")

\* idb.common.install.generate_io_chunks: the in-memory bundle as DataChunk frames
generate_io_chunks(io) ==
    Generator([k \in 1..io.nchunks |-> DataChunk(ChunkName(k))], "")

\* idb.common.install.generate_binary_chunks: the archive of the one path,
\* as DataChunk frames
generate_binary_chunks(path, destination) ==
    Generator(<<DataChunk("c1")>>, "")

\* idb.common.tar.generate_tar mapped by stream_map to Payload(data=chunk):
\* one chunk per path packed; reading a path that does not exist fails
generate_tar(paths) ==
    LET missing == { k \in 1..Len(paths) : paths[k] \notin Existing }
        packed == IF missing = {} THEN Len(paths)
                  ELSE (CHOOSE k \in missing : \A j \in missing : k <= j) - 1
    IN  Generator([k \in 1..packed |-> DataChunk(ChunkName(k))],
                  IF missing = {} THEN "" ELSE "FileNotFoundError")

\* the generator expression of hid, lines 495-497: event_to_grpc per event
grpc_event_iterator(events) ==
    Generator([k \in 1..Len(events) |-> HIDFrame(events[k])], "")

(* ------------------------------ streams ------------------------------- *)
\* A stream is what the transport was asked to do on it, in order.
Event(ev, kind, val) == [ev |-> ev, kind |-> kind, val |-> val]

\* stub.<method>.open() entered by `async with`
OpenStream == [open |-> TRUE, closes |-> 0, log |-> <<>>]
\* stream.send_message(frame)
SendMessage(s, frame) == [s EXCEPT !.log = Append(@, Event("send", frame.kind, frame.val))]
\* stream.end()
End(s) == [s EXCEPT !.log = Append(@, Event("end", "", ""))]
\* stream.recv_message(), what: "response", "chunk" or "eof"
RecvMessage(s, what) == [s EXCEPT !.log = Append(@, Event("recv", what, ""))]
\* leaving the `async with` block of the stream, normally or by an exception
AExit(s) == [s EXCEPT !.open = FALSE, !.closes = @ + 1]

\* the stream the coroutine is working on is the last it opened
Cur(ss) == ss[Len(ss)]
SetCur(ss, s) == [ss EXCEPT ![Len(ss)] = s]
\* Unwind as it would be were the streams opened without `async with`:
\* an exception leaves them open
Unwind_Leaks(ss) == ss

\* an exception unwinds through the `async with` blocks that are entered
Unwind(ss) == [k \in DOMAIN ss |-> IF ss[k].open THEN AExit(ss[k]) ELSE ss[k]]

(* ------------------------------ wrapper ------------------------------- *)
\* log_and_handle_exceptions.func_wrapper, the except clauses: an exception
\* raised inside the try block is turned into IdbException when it is a
\* transport error.  The try block ends with `return func(client, ...)`,
\* which returns the coroutine object without running it, so an exception
\* raised while the coroutine runs is raised outside the try block.
HandleException(e, raisedInTry) ==
    IF raisedInTry /\ e \in TransportErrors THEN "IdbException" ELSE e

\* what the caller of the operation receives when its coroutine raises e
Raised(e) == HandleException(e, FALSE)

NoLocals == [gen |-> NoGenerator, i |-> 0, strategy |-> "", request |-> PullRequest("None")]

\* the request message of a unary call
ContactsUpdateRequest(data) == [kind |-> "ContactsUpdateRequest", val |-> data]

\* lines 94-98
APPROVE_MAP == [p \in {"photos", "camera", "contacts"} |->
                   IF p = "photos" THEN "PHOTOS"
                   ELSE IF p = "camera" THEN "CAMERA" ELSE "CONTACTS"]

\* lines 239-242: the request built from the mapped permissions
ApproveRequest(bundle, permissions) ==
    [kind |-> "ApproveRequest", val |-> bundle,
     permissions |-> { APPROVE_MAP[p] : p \in permissions }]

\* idb.common.tar.create_tar: the whole archive of the paths, as one value
create_tar(paths) == "tar:" \o paths[1]
NoHist == [lookup |-> FALSE, reads |-> <<>>, unpacked |-> FALSE, raised |-> "", at |-> "",
           requests |-> <<>>]
NoCompanion == [known |-> FALSE, is_local |-> FALSE]
CompanionInfo(is_local) == [known |-> TRUE, is_local |-> is_local]

NoWrapped == [lookups |-> 0, channels |-> 0]

\* the concurrent callers of provide_client
Callers == {"p1", "p2", "p3"}
NoClient == [stub |-> "None", is_local |-> FALSE]
\* lines 173-178
CompanionClient(stub, is_local) == [stub |-> stub, is_local |-> is_local]

Init ==
    /\ companion_info = NoCompanion
    /\ channel = "None"
    /\ op = [o \in Ops |-> "none"]
    /\ args = [o \in Ops |-> NoArgs]
    /\ pc = [o \in Ops |-> "idle"]
    /\ locals = [o \in Ops |-> NoLocals]
    /\ streams = [o \in Ops |-> <<>>]
    /\ outcome = [o \in Ops |-> "none"]
    /\ hist = [o \in Ops |-> NoHist]
    /\ wrapped = [o \in Ops |-> NoWrapped]
    /\ unclosed = 0
    /\ daemon_channel = "None"
    /\ daemon_stub = "None"
    /\ daemon_made = {}
    /\ ppc = [c \in Callers |-> "idle"]
    /\ provided = [c \in Callers |-> NoClient]

\* func_wrapper, lines 108-123: look the companion up, make the channel and
\* the stub, store all three on the client, create the coroutine.  A method
\* whose body awaits another wrapped method runs that method's wrapper
\* before its first suspension: n wrappers run, one after the other.
daemon == <<daemon_channel, daemon_stub, daemon_made, ppc, provided>>

func_wrappers(o, name, a, is_local, n) ==
    /\ pc[o] = "idle"
    /\ unclosed + n <= MaxChannels
    /\ companion_info' = CompanionInfo(is_local)
    /\ channel' = o
    /\ unclosed' = unclosed + n
    /\ wrapped' = [wrapped EXCEPT ![o] = [lookups |-> n, channels |-> n]]
    /\ op' = [op EXCEPT ![o] = name]
    /\ args' = [args EXCEPT ![o] = a]
    /\ UNCHANGED daemon

\* the wrapper of a method whose body calls no other wrapped method
func_wrapper(o, name, a, is_local) == func_wrappers(o, name, a, is_local, 1)

\* the coroutine of task o finishes: its caller receives result
Finish(o, ss, result) ==
    /\ streams' = [streams EXCEPT ![o] = ss]
    /\ outcome' = [outcome EXCEPT ![o] = result]
    /\ pc' = [pc EXCEPT ![o] = "done"]

\* the exception e was raised inside the coroutine of task o
Threw(h, e) == [h EXCEPT !.raised = e]

\* self.companion_info.is_local read by the body of task o
ReadIsLocal(o, h) == [h EXCEPT !.reads = Append(@, companion_info.is_local)]

client == <<companion_info, channel, unclosed, daemon>>

(* ------------------------------- push --------------------------------- *)
\* lines 391-393: the wrapper, then push up to `async with ... open()`
CallPush(o, src_paths, is_local) ==
    /\ func_wrapper(o, "push", [NoArgs EXCEPT !.paths = src_paths], is_local)
    /\ pc' = [pc EXCEPT ![o] = "open"]
    /\ hist' = [hist EXCEPT ![o] = [NoHist EXCEPT !.lookup = is_local]]
    /\ UNCHANGED <<locals, streams, outcome>>

\* line 393: the stream is open
PushOpen(o) ==
    /\ op[o] = "push" /\ pc[o] = "open"
    /\ streams' = [streams EXCEPT ![o] = Append(@, OpenStream)]
    /\ pc' = [pc EXCEPT ![o] = "send_meta"]
    /\ UNCHANGED <<client, op, args, wrapped, locals, outcome, hist>>

\* lines 394-399 and 406-414: the Inner message is sent, then is_local
\* picks the file_path loop or the tar generator handed to drain_to_stream
PushSendMeta(o) ==
    /\ op[o] = "push" /\ pc[o] = "send_meta"
    /\ streams' = [streams EXCEPT ![o] =
           SetCur(@, SendMessage(Cur(@), Metadata(bundle_id \o ":" \o dest_path)))]
    /\ hist' = [hist EXCEPT ![o] = ReadIsLocal(o, @)]
    /\ IF companion_info.is_local
       THEN /\ locals' = [locals EXCEPT ![o].i = 1]
            /\ pc' = [pc EXCEPT ![o] = IF args[o].paths = <<>> THEN "end" ELSE "send_path"]
       ELSE /\ locals' = [locals EXCEPT ![o].gen = generate_tar(args[o].paths)]
            /\ pc' = [pc EXCEPT ![o] = "drain"]
    /\ UNCHANGED <<client, op, args, wrapped, outcome>>

\* PushSendPath as it would be were the source paths taken from the end
PushSendPath_Reversed(o) ==
    /\ op[o] = "push" /\ pc[o] = "send_path"
    /\ streams' = [streams EXCEPT ![o] =
           SetCur(@, SendMessage(Cur(@),
               PathRef(args[o].paths[Len(args[o].paths) + 1 - locals[o].i])))]
    /\ locals' = [locals EXCEPT ![o].i = @ + 1]
    /\ pc' = [pc EXCEPT ![o] =
           IF locals[o].i = Len(args[o].paths) THEN "end" ELSE "send_path"]
    /\ UNCHANGED <<client, op, args, wrapped, outcome, hist>>

\* PushSendPath as it would be were the Inner message sent inside the loop
PushSendPath_ResendsInner(o) ==
    /\ op[o] = "push" /\ pc[o] = "send_path"
    /\ streams' = [streams EXCEPT ![o] =
           SetCur(@, SendMessage(
               SendMessage(Cur(@), Metadata(bundle_id \o ":" \o dest_path)),
               PathRef(args[o].paths[locals[o].i])))]
    /\ locals' = [locals EXCEPT ![o].i = @ + 1]
    /\ pc' = [pc EXCEPT ![o] =
           IF locals[o].i = Len(args[o].paths) THEN "end" ELSE "send_path"]
    /\ UNCHANGED <<client, op, args, wrapped, outcome, hist>>

\* lines 400-403: one file_path message per source path
PushSendPath(o) ==
    /\ op[o] = "push" /\ pc[o] = "send_path"
    /\ streams' = [streams EXCEPT ![o] =
           SetCur(@, SendMessage(Cur(@), PathRef(args[o].paths[locals[o].i])))]
    /\ locals' = [locals EXCEPT ![o].i = @ + 1]
    /\ pc' = [pc EXCEPT ![o] =
           IF locals[o].i = Len(args[o].paths) THEN "end" ELSE "send_path"]
    /\ UNCHANGED <<client, op, args, wrapped, outcome, hist>>

\* PushEnd as it would be were `await stream.end()` left out
PushEnd_Skipped(o) ==
    /\ op[o] = "push" /\ pc[o] = "end"
    /\ pc' = [pc EXCEPT ![o] = "recv"]
    /\ UNCHANGED <<client, op, args, wrapped, locals, streams, outcome, hist>>

\* line 404: stream.end()
PushEnd(o) ==
    /\ op[o] = "push" /\ pc[o] = "end"
    /\ streams' = [streams EXCEPT ![o] = SetCur(@, End(Cur(@)))]
    /\ pc' = [pc EXCEPT ![o] = "recv"]
    /\ UNCHANGED <<client, op, args, wrapped, locals, outcome, hist>>

\* line 405: stream.recv_message(), then the `async with` block is left
PushRecv(o) ==
    /\ op[o] = "push" /\ pc[o] = "recv"
    /\ Finish(o, SetCur(streams[o], AExit(RecvMessage(Cur(streams[o]), "response"))), "ok")
    /\ UNCHANGED <<client, op, args, wrapped, locals, hist>>

(* ----------------------------- add_media ------------------------------ *)
\* lines 217-219: the wrapper, then add_media up to `async with ... open()`
CallAddMedia(o, file_paths, is_local) ==
    /\ func_wrapper(o, "add_media", [NoArgs EXCEPT !.paths = file_paths], is_local)
    /\ pc' = [pc EXCEPT ![o] = "open"]
    /\ hist' = [hist EXCEPT ![o] = [NoHist EXCEPT !.lookup = is_local]]
    /\ UNCHANGED <<locals, streams, outcome>>

\* AddMediaOpen as it would be were an empty file_paths list returned on
\* at once, before end() and recv_message()
AddMediaOpen_EmptyReturns(o) ==
    /\ op[o] = "add_media" /\ pc[o] = "open"
    /\ hist' = [hist EXCEPT ![o] = ReadIsLocal(o, @)]
    /\ IF args[o].paths = <<>>
       THEN /\ Finish(o, Append(streams[o], AExit(OpenStream)), "ok")
            /\ UNCHANGED locals
       ELSE /\ streams' = [streams EXCEPT ![o] = Append(@, OpenStream)]
            /\ UNCHANGED outcome
            /\ IF companion_info.is_local
               THEN /\ locals' = [locals EXCEPT ![o].i = 1]
                    /\ pc' = [pc EXCEPT ![o] = "send_path"]
               ELSE /\ locals' = [locals EXCEPT ![o].gen = generate_tar(args[o].paths)]
                    /\ pc' = [pc EXCEPT ![o] = "drain"]
    /\ UNCHANGED <<client, op, args, wrapped>>

\* lines 219-220 and 227-234: the stream is open, then is_local picks the
\* file_path loop or the tar generator handed to drain_to_stream
AddMediaOpen(o) ==
    /\ op[o] = "add_media" /\ pc[o] = "open"
    /\ streams' = [streams EXCEPT ![o] = Append(@, OpenStream)]
    /\ hist' = [hist EXCEPT ![o] = ReadIsLocal(o, @)]
    /\ IF companion_info.is_local
       THEN /\ locals' = [locals EXCEPT ![o].i = 1]
            /\ pc' = [pc EXCEPT ![o] = IF args[o].paths = <<>> THEN "end" ELSE "send_path"]
       ELSE /\ locals' = [locals EXCEPT ![o].gen = generate_tar(args[o].paths)]
            /\ pc' = [pc EXCEPT ![o] = "drain"]
    /\ UNCHANGED <<client, op, args, wrapped, outcome>>

\* lines 221-224: one file_path message per file path
AddMediaSendPath(o) ==
    /\ op[o] = "add_media" /\ pc[o] = "send_path"
    /\ streams' = [streams EXCEPT ![o] =
           SetCur(@, SendMessage(Cur(@), PathRef(args[o].paths[locals[o].i])))]
    /\ locals' = [locals EXCEPT ![o].i = @ + 1]
    /\ pc' = [pc EXCEPT ![o] =
           IF locals[o].i = Len(args[o].paths) THEN "end" ELSE "send_path"]
    /\ UNCHANGED <<client, op, args, wrapped, outcome, hist>>

\* line 225: stream.end()
AddMediaEnd(o) ==
    /\ op[o] = "add_media" /\ pc[o] = "end"
    /\ streams' = [streams EXCEPT ![o] = SetCur(@, End(Cur(@)))]
    /\ pc' = [pc EXCEPT ![o] = "recv"]
    /\ UNCHANGED <<client, op, args, wrapped, locals, outcome, hist>>

\* line 226: stream.recv_message(), then the `async with` block is left
AddMediaRecv(o) ==
    /\ op[o] = "add_media" /\ pc[o] = "recv"
    /\ Finish(o, SetCur(streams[o], AExit(RecvMessage(Cur(streams[o]), "response"))), "ok")
    /\ UNCHANGED <<client, op, args, wrapped, locals, hist>>

(* ------------------------------ install ------------------------------- *)
\* InstallStrategy as it would be were is_local not consulted at line 368
InstallStrategy_IgnoresLocality(bundle, is_local) ==
    IF bundle.type = "str"
    THEN IF bundle.scheme # "" THEN "url" ELSE "file_path"
    ELSE "io_chunks"

\* _install_to_destination, lines 358-382: how the bundle is sent
InstallStrategy(bundle, is_local) ==
    IF bundle.type = "str"
    THEN IF bundle.scheme # "" THEN "url"
         ELSE IF is_local THEN "file_path" ELSE "binary_chunks"
    ELSE "io_chunks"

\* the generator each branch of lines 358-382 assigns
InstallGenerator(strategy, bundle, destination) ==
    CASE strategy = "url" -> generate_requests(<<URLRef(BundleStr(bundle))>>)
      [] strategy = "file_path" -> generate_requests(<<PathRef(Resolve(bundle.path))>>)
      [] strategy = "binary_chunks" -> generate_binary_chunks(Resolve(bundle.path), destination)
      [] strategy = "io_chunks" -> generate_io_chunks(bundle)

\* install / install_xctest, lines 324-334, and _install_to_destination up
\* to its first `async with ... open()`: line 363, 370 or 384.  A str bundle
\* without a scheme is resolved first (line 367), which raises
\* FileNotFoundError when the entry does not exist.
CallInstall(o, bundle, destination, is_local) ==
    LET strategy == InstallStrategy(bundle, is_local)
        isPath == bundle.type = "str" /\ bundle.scheme = ""
    IN  /\ func_wrapper(o, "install",
                        [NoArgs EXCEPT !.bundle = bundle, !.destination = destination],
                        is_local)
        /\ IF isPath /\ bundle.path \notin Existing
           THEN /\ Finish(o, streams[o], Raised("FileNotFoundError"))
                /\ hist' = [hist EXCEPT ![o] =
                       Threw([NoHist EXCEPT !.lookup = is_local], "FileNotFoundError")]
                /\ UNCHANGED locals
           ELSE /\ hist' = [hist EXCEPT ![o] =
                       [NoHist EXCEPT !.lookup = is_local,
                                      !.reads = IF isPath THEN <<is_local>> ELSE <<>>]]
                /\ locals' = [locals EXCEPT ![o] =
                       [NoLocals EXCEPT
                           !.strategy = strategy,
                           !.gen = IF strategy \in {"binary_chunks", "io_chunks"}
                                   THEN InstallGenerator(strategy, bundle, destination)
                                   ELSE NoGenerator]]
                /\ pc' = [pc EXCEPT ![o] =
                       IF strategy \in {"url", "file_path"} THEN "open1" ELSE "open2"]
                /\ UNCHANGED <<streams, outcome>>

\* lines 363-364 and 370-373: a stream is opened around the assignment of
\* the one-request generator
InstallOpen1(o) ==
    /\ op[o] = "install" /\ pc[o] = "open1"
    /\ streams' = [streams EXCEPT ![o] = Append(@, OpenStream)]
    /\ locals' = [locals EXCEPT ![o].gen =
           InstallGenerator(locals[o].strategy, args[o].bundle, args[o].destination)]
    /\ pc' = [pc EXCEPT ![o] = "exit1"]
    /\ UNCHANGED <<client, op, args, wrapped, outcome, hist>>

\* the end of the `async with` block of line 363 or 370
InstallExit1(o) ==
    /\ op[o] = "install" /\ pc[o] = "exit1"
    /\ streams' = [streams EXCEPT ![o] = SetCur(@, AExit(Cur(@)))]
    /\ pc' = [pc EXCEPT ![o] = "open2"]
    /\ UNCHANGED <<client, op, args, wrapped, locals, outcome, hist>>

\* line 384: the stream the bundle is sent on
InstallOpen2(o) ==
    /\ op[o] = "install" /\ pc[o] = "open2"
    /\ streams' = [streams EXCEPT ![o] = Append(@, OpenStream)]
    /\ pc' = [pc EXCEPT ![o] = "send_meta"]
    /\ UNCHANGED <<client, op, args, wrapped, locals, outcome, hist>>

\* lines 385-386: the destination message is sent, drain_to_stream is next
InstallSendMeta(o) ==
    /\ op[o] = "install" /\ pc[o] = "send_meta"
    /\ streams' = [streams EXCEPT ![o] =
           SetCur(@, SendMessage(Cur(@), Metadata(args[o].destination)))]
    /\ pc' = [pc EXCEPT ![o] = "drain"]
    /\ UNCHANGED <<client, op, args, wrapped, locals, outcome, hist>>

(* ------------------------------- pull --------------------------------- *)
\* lines 416-418: the wrapper, then pull up to `async with ... open()`
CallPull(o, is_local) ==
    /\ func_wrapper(o, "pull", NoArgs, is_local)
    /\ pc' = [pc EXCEPT ![o] = "open"]
    /\ hist' = [hist EXCEPT ![o] = [NoHist EXCEPT !.lookup = is_local]]
    /\ UNCHANGED <<locals, streams, outcome>>

\* lines 418-425: the stream is open and the request is built; dst_path is
\* set only when is_local is true
PullOpen(o) ==
    /\ op[o] = "pull" /\ pc[o] = "open"
    /\ streams' = [streams EXCEPT ![o] = Append(@, OpenStream)]
    /\ hist' = [hist EXCEPT ![o] = ReadIsLocal(o, @)]
    /\ locals' = [locals EXCEPT ![o].request =
           PullRequest(IF companion_info.is_local THEN dest_path ELSE "None")]
    /\ pc' = [pc EXCEPT ![o] = "send_req"]
    /\ UNCHANGED <<client, op, args, wrapped, outcome>>

\* line 426: the request is sent
PullSend(o) ==
    /\ op[o] = "pull" /\ pc[o] = "send_req"
    /\ streams' = [streams EXCEPT ![o] = SetCur(@, SendMessage(Cur(@), locals[o].request))]
    /\ pc' = [pc EXCEPT ![o] = "end"]
    /\ UNCHANGED <<client, op, args, wrapped, locals, outcome, hist>>

\* lines 427-431: stream.end(), then is_local picks the single
\* recv_message or drain_untar over generate_bytes(stream)
PullEnd(o) ==
    /\ op[o] = "pull" /\ pc[o] = "end"
    /\ streams' = [streams EXCEPT ![o] = SetCur(@, End(Cur(@)))]
    /\ hist' = [hist EXCEPT ![o] =
           [ReadIsLocal(o, @) EXCEPT !.unpacked = ~companion_info.is_local]]
    /\ pc' = [pc EXCEPT ![o] = IF companion_info.is_local THEN "recv" ELSE "untar"]
    /\ UNCHANGED <<client, op, args, wrapped, locals, outcome>>

\* lines 429 and 432-433: the single recv_message, then the block is left
PullRecv(o) ==
    /\ op[o] = "pull" /\ pc[o] = "recv"
    /\ Finish(o, SetCur(streams[o], AExit(RecvMessage(Cur(streams[o]), "response"))), "ok")
    /\ UNCHANGED <<client, op, args, wrapped, locals, hist>>

\* the chunks generate_bytes has received on stream s so far
Chunks(s) == Len(SelectSeq(s.log, LAMBDA e : e.ev = "recv" /\ e.kind = "chunk"))

\* line 431: drain_untar pulls generate_bytes(stream), which receives until
\* the companion closes its side; more says whether a chunk arrives
PullUntar(o, more) ==
    /\ op[o] = "pull" /\ pc[o] = "untar"
    /\ IF more
       THEN /\ Chunks(Cur(streams[o])) < MaxChunks
            /\ streams' = [streams EXCEPT ![o] = SetCur(@, RecvMessage(Cur(@), "chunk"))]
            /\ UNCHANGED <<pc, outcome>>
       ELSE Finish(o, SetCur(streams[o], AExit(RecvMessage(Cur(streams[o]), "eof"))), "ok")
    /\ UNCHANGED <<client, op, args, wrapped, locals, hist>>

(* -------------------------------- hid --------------------------------- *)
HidWrappers == {"tap", "button", "key", "text", "swipe", "key_sequence"}
HidOps == {"hid", "send_events"} \cup HidWrappers

\* lines 453-456: send_events is wrapped and its body awaits self.hid, which
\* is wrapped too: two wrappers run before the stream is opened
CallSendEvents(o, events, is_local) ==
    /\ func_wrappers(o, "send_events", [NoArgs EXCEPT !.events = events], is_local, 2)
    /\ pc' = [pc EXCEPT ![o] = "open"]
    /\ hist' = [hist EXCEPT ![o] = [NoHist EXCEPT !.lookup = is_local]]
    /\ UNCHANGED <<locals, streams, outcome>>

\* lines 458-490: tap, button, key, text, swipe and key_sequence are wrapped
\* and await self.send_events with the events they stand for: three wrappers
\* run before the stream is opened
CallHidWrapper(o, name, events, is_local) ==
    /\ func_wrappers(o, name, [NoArgs EXCEPT !.events = events], is_local, 3)
    /\ pc' = [pc EXCEPT ![o] = "open"]
    /\ hist' = [hist EXCEPT ![o] = [NoHist EXCEPT !.lookup = is_local]]
    /\ UNCHANGED <<locals, streams, outcome>>

\* lines 492-494: the wrapper, then hid up to `async with ... open()`
CallHid(o, events, is_local) ==
    /\ func_wrapper(o, "hid", [NoArgs EXCEPT !.events = events], is_local)
    /\ pc' = [pc EXCEPT ![o] = "open"]
    /\ hist' = [hist EXCEPT ![o] = [NoHist EXCEPT !.lookup = is_local]]
    /\ UNCHANGED <<locals, streams, outcome>>

\* lines 494-498: the stream is open, the events are mapped, drain_to_stream is next
HidOpen(o) ==
    /\ op[o] \in HidOps /\ pc[o] = "open"
    /\ streams' = [streams EXCEPT ![o] = Append(@, OpenStream)]
    /\ locals' = [locals EXCEPT ![o].gen = grpc_event_iterator(args[o].events)]
    /\ pc' = [pc EXCEPT ![o] = "drain"]
    /\ UNCHANGED <<client, op, args, wrapped, outcome, hist>>

\* line 501: recv_message after drain_to_stream returned, then the block is left
HidRecv(o) ==
    /\ op[o] \in HidOps /\ pc[o] = "recv"
    /\ Finish(o, SetCur(streams[o], AExit(RecvMessage(Cur(streams[o]), "eof"))), "ok")
    /\ UNCHANGED <<client, op, args, wrapped, locals, hist>>

(* -------------------------- contacts_update --------------------------- *)
\* lines 249-251: the wrapper, then contacts_update up to `await create_tar`
CallContactsUpdate(o, contacts_path, is_local) ==
    /\ func_wrapper(o, "contacts_update", [NoArgs EXCEPT !.paths = <<contacts_path>>], is_local)
    /\ pc' = [pc EXCEPT ![o] = "create_tar"]
    /\ hist' = [hist EXCEPT ![o] = [NoHist EXCEPT !.lookup = is_local]]
    /\ UNCHANGED <<locals, streams, outcome>>

\* lines 251-254: create_tar returns the archive (or fails on a path that
\* does not exist) and the request of the unary call is built from it
ContactsCreateTar(o) ==
    /\ op[o] = "contacts_update" /\ pc[o] = "create_tar"
    /\ IF generate_tar(args[o].paths).err # ""
       THEN /\ Finish(o, streams[o], Raised(generate_tar(args[o].paths).err))
            /\ hist' = [hist EXCEPT ![o] =
                   [Threw(@, generate_tar(args[o].paths).err) EXCEPT !.at = "create_tar"]]
            /\ UNCHANGED locals
       ELSE /\ locals' = [locals EXCEPT ![o].request =
                   ContactsUpdateRequest(create_tar(args[o].paths))]
            /\ pc' = [pc EXCEPT ![o] = "unary"]
            /\ UNCHANGED <<streams, outcome, hist>>
    /\ UNCHANGED <<client, op, args, wrapped>>

\* lines 252-254 (and 238-243): `await self.stub.<method>(request)`, a unary
\* call that sends the one request and returns the response
UnaryCall(o) ==
    /\ pc[o] = "unary"
    /\ hist' = [hist EXCEPT ![o].requests = Append(@, locals[o].request)]
    /\ Finish(o, streams[o], "ok")
    /\ UNCHANGED <<client, op, args, wrapped, locals>>

(* ------------------------------ approve ------------------------------- *)
\* lines 236-243: the wrapper, then approve up to `await self.stub.approve`:
\* the list of mapped permissions is built first, and APPROVE_MAP[permission]
\* raises KeyError for a name that is not a key
CallApprove(o, permissions, is_local) ==
    /\ func_wrapper(o, "approve", [NoArgs EXCEPT !.permissions = permissions], is_local)
    /\ IF permissions \subseteq DOMAIN APPROVE_MAP
       THEN /\ hist' = [hist EXCEPT ![o] = [NoHist EXCEPT !.lookup = is_local]]
            /\ locals' = [locals EXCEPT ![o] =
                   [NoLocals EXCEPT !.request = ApproveRequest(bundle_id, permissions)]]
            /\ pc' = [pc EXCEPT ![o] = "unary"]
            /\ UNCHANGED <<streams, outcome>>
       ELSE /\ Finish(o, streams[o], Raised("KeyError"))
            /\ hist' = [hist EXCEPT ![o] =
                   [Threw([NoHist EXCEPT !.lookup = is_local], "KeyError")
                       EXCEPT !.at = "build_request"]]
            /\ UNCHANGED locals

(* -------------------------- drain_to_stream --------------------------- *)
\* idb.grpc.stream.drain_to_stream: every frame of the generator is sent in
\* order, then the stream is ended, then one message is received
DrainSend(o) ==
    /\ pc[o] = "drain" /\ locals[o].gen.frames # <<>>
    /\ streams' = [streams EXCEPT ![o] =
           SetCur(@, SendMessage(Cur(@), Head(locals[o].gen.frames)))]
    /\ locals' = [locals EXCEPT ![o].gen.frames = Tail(@)]
    /\ UNCHANGED <<client, op, args, wrapped, pc, outcome, hist>>

\* the generator raises instead of yielding: the exception leaves
\* drain_to_stream and the `async with` block around it
DrainSourceFail(o) ==
    /\ pc[o] = "drain" /\ locals[o].gen.frames = <<>> /\ locals[o].gen.err # ""
    /\ Finish(o, Unwind(streams[o]), Raised(locals[o].gen.err))
    /\ hist' = [hist EXCEPT ![o] = Threw(@, locals[o].gen.err)]
    /\ UNCHANGED <<client, op, args, wrapped, locals>>

\* the generator is exhausted: stream.end()
DrainEnd(o) ==
    /\ pc[o] = "drain" /\ locals[o].gen.frames = <<>> /\ locals[o].gen.err = ""
    /\ streams' = [streams EXCEPT ![o] = SetCur(@, End(Cur(@)))]
    /\ pc' = [pc EXCEPT ![o] = "drain_recv"]
    /\ UNCHANGED <<client, op, args, wrapped, locals, outcome, hist>>

\* the response is received and returned to the caller of drain_to_stream:
\* hid goes on to line 501; install (line 389), push and add_media return
DrainRecv(o) ==
    /\ pc[o] = "drain_recv"
    /\ IF op[o] \in HidOps
       THEN /\ streams' = [streams EXCEPT ![o] = SetCur(@, RecvMessage(Cur(@), "response"))]
            /\ pc' = [pc EXCEPT ![o] = "recv"]
            /\ UNCHANGED outcome
       ELSE Finish(o, SetCur(streams[o], AExit(RecvMessage(Cur(streams[o]), "response"))), "ok")
    /\ UNCHANGED <<client, op, args, wrapped, locals, hist>>

(* --------------------------- failures, return ------------------------- *)
Exceptions == TransportErrors \cup {"CancelledError"}

\* Raise as it would be were the stream ended in a `finally:` clause
Raise_EndsStream(o, e) ==
    /\ pc[o] \notin {"idle", "done"}
    /\ pc[o] = "create_tar" => e = "CancelledError"
    /\ Finish(o,
              IF streams[o] # <<>> /\ Cur(streams[o]).open
              THEN Unwind(SetCur(streams[o], End(Cur(streams[o]))))
              ELSE Unwind(streams[o]),
              Raised(e))
    /\ hist' = [hist EXCEPT ![o] = [Threw(@, e) EXCEPT !.at = pc[o]]]
    /\ UNCHANGED <<client, op, args, wrapped, locals>>

\* the await task o is suspended at raises e: a transport error, or
\* CancelledError when the caller cancels the task.  The exception leaves
\* the loop and the `async with` blocks entered and reaches the caller.
Raise(o, e) ==
    /\ pc[o] \notin {"idle", "done"}
    /\ pc[o] = "create_tar" => e = "CancelledError"
    /\ Finish(o, Unwind(streams[o]), Raised(e))
    /\ hist' = [hist EXCEPT ![o] = [Threw(@, e) EXCEPT !.at = pc[o]]]
    /\ UNCHANGED <<client, op, args, wrapped, locals>>

\* another operation is called on the same client: its func_wrapper,
\* lines 108-123, stores its companion_info, channel and stub on the client
OtherCall(is_local) ==
    /\ unclosed + 1 <= MaxChannels
    /\ companion_info' = CompanionInfo(is_local)
    /\ channel' = "other"
    /\ unclosed' = unclosed + 1
    /\ UNCHANGED daemon
    /\ UNCHANGED <<op, args, wrapped, pc, locals, streams, outcome, hist>>

\* channels still referenced: the one stored on the client, and the one a
\* running operation holds after another wrapper replaced it on the client
Referenced ==
    (IF channel = "None" THEN 0 ELSE 1)
    + Cardinality({ o \in Ops : pc[o] \notin {"idle", "done"} /\ channel # o })

\* lines 100-102: no code closes a channel; a channel that is no longer
\* referenced may be closed when it is garbage collected (the "channel not
\* closed" warning that is silenced), at a time the program does not control
ChannelDel ==
    /\ unclosed > Referenced
    /\ unclosed' = unclosed - 1
    /\ UNCHANGED <<companion_info, channel, op, args, wrapped, pc, locals, streams,
                   outcome, hist, daemon>>

\* the caller has the result; the task is free for the next call
Return(o) ==
    /\ pc[o] = "done"
    /\ op' = [op EXCEPT ![o] = "none"]
    /\ args' = [args EXCEPT ![o] = NoArgs]
    /\ pc' = [pc EXCEPT ![o] = "idle"]
    /\ locals' = [locals EXCEPT ![o] = NoLocals]
    /\ streams' = [streams EXCEPT ![o] = <<>>]
    /\ outcome' = [outcome EXCEPT ![o] = "none"]
    /\ hist' = [hist EXCEPT ![o] = NoHist]
    /\ wrapped' = [wrapped EXCEPT ![o] = NoWrapped]
    /\ UNCHANGED client

Next ==
    \/ \E l \in BOOLEAN : OtherCall(l)
    \/ ChannelDel
    \/ \E o \in Ops :
        \/ \E ps \in SeqsUpTo(Paths, MaxPaths), l \in BOOLEAN : CallPush(o, ps, l)
        \/ PushOpen(o) \/ PushSendMeta(o) \/ PushSendPath(o) \/ PushEnd(o) \/ PushRecv(o)
        \/ \E ps \in SeqsUpTo(Paths, MaxPaths), l \in BOOLEAN : CallAddMedia(o, ps, l)
        \/ AddMediaOpen(o) \/ AddMediaSendPath(o) \/ AddMediaEnd(o) \/ AddMediaRecv(o)
        \/ \E b \in Bundles, d \in Destinations, l \in BOOLEAN : CallInstall(o, b, d, l)
        \/ InstallOpen1(o) \/ InstallExit1(o) \/ InstallOpen2(o) \/ InstallSendMeta(o)
        \/ \E l \in BOOLEAN : CallPull(o, l)
        \/ PullOpen(o) \/ PullSend(o) \/ PullEnd(o) \/ PullRecv(o)
        \/ \E more \in BOOLEAN : PullUntar(o, more)
        \/ \E es \in SeqsUpTo(HIDEvents, MaxEvents), l \in BOOLEAN : CallHid(o, es, l)
        \/ \E es \in SeqsUpTo(HIDEvents, MaxEvents), l \in BOOLEAN : CallSendEvents(o, es, l)
        \/ \E n \in HidWrappers, es \in SeqsUpTo(HIDEvents, MaxEvents), l \in BOOLEAN :
               CallHidWrapper(o, n, es, l)
        \/ HidOpen(o) \/ HidRecv(o)
        \/ \E p \in Paths, l \in BOOLEAN : CallContactsUpdate(o, p, l)
        \/ ContactsCreateTar(o) \/ UnaryCall(o)
        \/ \E ps \in SUBSET PermissionNames, l \in BOOLEAN : CallApprove(o, ps, l)
        \/ DrainSend(o) \/ DrainSourceFail(o) \/ DrainEnd(o) \/ DrainRecv(o)
        \/ \E e \in Exceptions : Raise(o, e)
        \/ Return(o)

Spec == Init /\ [][Next]_vars

(* --------------------------- provide_client --------------------------- *)
\* the state of the operations on the companion, which provide_client
\* leaves alone
direct == <<companion_info, channel, unclosed, op, args, wrapped, pc, locals, streams,
            outcome, hist>>

\* lines 164-167: provide_client is called and suspends in
\* `await self.daemon_spawner.start_daemon_if_needed(...)`
StartDaemonIfNeeded(c) ==
    /\ ppc[c] = "idle"
    /\ ppc' = [ppc EXCEPT ![c] = "start_daemon"]
    /\ provided' = [provided EXCEPT ![c] = NoClient]
    /\ UNCHANGED <<daemon_channel, daemon_stub, daemon_made, direct>>

\* provide_client as it would be were the channel made without the test of
\* line 168
ProvideClient_NoTest(c) ==
    /\ ppc[c] = "start_daemon"
    /\ daemon_channel' = c
    /\ daemon_stub' = c
    /\ daemon_made' = daemon_made \cup {c}
    /\ provided' = [provided EXCEPT ![c] = CompanionClient(daemon_stub', TRUE)]
    /\ ppc' = [ppc EXCEPT ![c] = "done"]
    /\ UNCHANGED direct

\* lines 168-178: the await has returned; with no suspension in between,
\* the channel and the stub are made if either is missing, and the
\* CompanionClient is returned
ProvideClient(c) ==
    /\ ppc[c] = "start_daemon"
    /\ IF daemon_channel = "None" \/ daemon_stub = "None"
       THEN /\ daemon_channel' = c
            /\ daemon_stub' = c
            /\ daemon_made' = daemon_made \cup {c}
       ELSE UNCHANGED <<daemon_channel, daemon_stub, daemon_made>>
    /\ provided' = [provided EXCEPT ![c] = CompanionClient(daemon_stub', TRUE)]
    /\ ppc' = [ppc EXCEPT ![c] = "done"]
    /\ UNCHANGED direct

\* lines 165-167: start_daemon_if_needed raises, or the call is cancelled
\* while it waits: provide_client returns no client
StartDaemonFails(c) ==
    /\ ppc[c] = "start_daemon"
    /\ ppc' = [ppc EXCEPT ![c] = "failed"]
    /\ UNCHANGED <<daemon_channel, daemon_stub, daemon_made, provided, direct>>

\* the caller has the CompanionClient, or the exception
ProvideClientReturn(c) ==
    /\ ppc[c] \in {"done", "failed"}
    /\ ppc' = [ppc EXCEPT ![c] = "idle"]
    /\ UNCHANGED <<daemon_channel, daemon_stub, daemon_made, provided, direct>>

NextDaemon ==
    \E c \in Callers :
        \/ StartDaemonIfNeeded(c)
        \/ ProvideClient(c)
        \/ StartDaemonFails(c)
        \/ ProvideClientReturn(c)

SpecDaemon == Init /\ [][NextDaemon]_vars

\* the awaits of task o that complete when the companion accepts every
\* frame and sends one response after end-of-stream: opening a stream, a
\* send, stream.end(), the receive of that response, a unary call, and the
\* local steps.  A receive after the response (HidRecv, PullUntar) completes
\* only if the companion sends more or closes its side.
Progress(o) ==
    \/ PushOpen(o) \/ PushSendMeta(o) \/ PushSendPath(o) \/ PushEnd(o) \/ PushRecv(o)
    \/ AddMediaOpen(o) \/ AddMediaSendPath(o) \/ AddMediaEnd(o) \/ AddMediaRecv(o)
    \/ InstallOpen1(o) \/ InstallExit1(o) \/ InstallOpen2(o) \/ InstallSendMeta(o)
    \/ PullOpen(o) \/ PullSend(o) \/ PullEnd(o) \/ PullRecv(o)
    \/ HidOpen(o)
    \/ ContactsCreateTar(o) \/ UnaryCall(o)
    \/ DrainSend(o) \/ DrainSourceFail(o) \/ DrainEnd(o) \/ DrainRecv(o)

\* the event loop runs a task whose await has completed
SpecLive == Init /\ [][Next]_vars /\ WF_vars(\E o \in Ops : Progress(o))

(* ======================== properties of the client ==================== *)
\* what happened on a stream, read off its log
Sent(s) == SelectSeq(s.log, LAMBDA e : e.ev = "send")
Payload(s) == SelectSeq(s.log, LAMBDA e : e.ev = "send" /\ e.kind # "Metadata")
Count(s, ev) == Len(SelectSeq(s.log, LAMBDA e : e.ev = ev))
At(s, ev) == { k \in DOMAIN s.log : s.log[k].ev = ev }
Succeeded(o) == pc[o] = "done" /\ outcome[o] = "ok"
\* the single domain error type of the client
DomainError == "IdbException"
IsPathBundle(b) == b.type = "str" /\ b.scheme = ""
SomeMissing(paths) == \E k \in DOMAIN paths : paths[k] \notin Existing

\* C1: a transport failure (GRPCError, ProtocolError, StreamTerminatedError)
\* raised at any point of a wrapped operation reaches the caller as
\* IdbException; no raw transport error type reaches the caller.
C1_TransportFailureTranslated ==
    \A o \in Ops :
        (pc[o] = "done" /\ hist[o].raised \in TransportErrors)
            => outcome[o] = DomainError

\* the runs C2 speaks of: install, push, add_media, and the pull that awaits
\* the single terminal response (line 429) instead of unpacking
C2_InScope(o) ==
    \/ op[o] \in {"install", "push", "add_media"}
    \/ op[o] = "pull" /\ ~hist[o].unpacked

\* C2: in every successful run of install, push, add_media and local pull,
\* on the stream that carries the request frames end-of-stream is signalled
\* exactly once, the terminal response is received exactly once, that
\* receive comes after end-of-stream and after every send, and no receive
\* is performed on a stream before it is ended.
C2_ReceiveOnceAfterEnd ==
    \A o \in Ops :
        /\ \A k \in DOMAIN streams[o] :
               \A r \in At(streams[o][k], "recv") :
                   \E e \in At(streams[o][k], "end") : e < r
        /\ (Succeeded(o) /\ C2_InScope(o)) =>
               LET s == Cur(streams[o])
               IN  /\ Count(s, "end") = 1
                   /\ Count(s, "recv") = 1
                   /\ \A r \in At(s, "recv") :
                          \A x \in At(s, "end") \cup At(s, "send") : x < r
                   /\ \A e \in At(s, "end") : \A x \in At(s, "send") : x < e

\* a push of two paths to a local companion has succeeded
C2_Witness ==
    \E o \in Ops :
        /\ Succeeded(o) /\ op[o] = "push" /\ hist[o].reads = <<TRUE>>
        /\ Len(args[o].paths) = 2
        /\ Count(Cur(streams[o]), "send") = 3

\* C3: every operation opens at most one stream and signals end-of-stream
\* at most once.
C3_AtMostOneStream ==
    \A o \in Ops :
        /\ Len(streams[o]) <= 1
        /\ \A k \in DOMAIN streams[o] : Count(streams[o][k], "end") <= 1

\* the payload frames an install has sent, over all the streams it opened
RECURSIVE PayloadOfAll(_)
PayloadOfAll(ss) ==
    IF ss = <<>> THEN <<>> ELSE Payload(Head(ss)) \o PayloadOfAll(Tail(ss))

\* the decision table: the frame kind for a bundle and a locality
C4_Table(bundle, is_local) ==
    IF bundle.type = "io" THEN "DataChunk"
    ELSE IF bundle.scheme # "" THEN "URLRef"
    ELSE IF is_local THEN "PathRef" ELSE "DataChunk"

\* C4: the payload frame kind of an install is the decision table's: a URL
\* sends exactly one URLRef frame for either locality; a path with a Local
\* companion exactly one PathRef frame carrying the resolved absolute path
\* and no DataChunk; a path with a Remote companion only DataChunk frames;
\* an in-memory bundle only DataChunk frames for either locality.
C4_InstallFrameKind ==
    \A o \in Ops :
        op[o] = "install" =>
            LET b == args[o].bundle
                kind == C4_Table(b, hist[o].lookup)
                frames == PayloadOfAll(streams[o])
            IN  /\ \A k \in DOMAIN frames : frames[k].kind = kind
                /\ kind \in {"URLRef", "PathRef"} =>
                       /\ Len(frames) <= 1
                       /\ Succeeded(o) => Len(frames) = 1
                       /\ \A k \in DOMAIN frames :
                              frames[k].val = IF kind = "URLRef" THEN BundleStr(b)
                                              ELSE "/cwd/" \o b.path

\* an install of an existing path to a local companion has succeeded, and
\* so can one to a remote companion
C4_Witness ==
    \E o \in Ops :
        /\ Succeeded(o) /\ op[o] = "install"
        /\ IsPathBundle(args[o].bundle) /\ hist[o].lookup
        /\ Len(PayloadOfAll(streams[o])) = 1

\* C5: on every install, push and add_media stream the frames sent so far
\* are at most one Metadata frame, first if present, followed by payload
\* frames of one kind (all PathRef, all URLRef or all DataChunk).
C5_FrameShape ==
    \A o \in Ops :
        op[o] \in {"install", "push", "add_media"} =>
            \A k \in DOMAIN streams[o] :
                LET sent == Sent(streams[o][k])
                    payload == Payload(streams[o][k])
                IN  /\ \A i \in DOMAIN sent : sent[i].kind = "Metadata" => i = 1
                    /\ \A i \in DOMAIN payload :
                           /\ payload[i].kind \in {"PathRef", "URLRef", "DataChunk"}
                           /\ payload[i].kind = payload[1].kind

\* a push has sent its Metadata frame and two payload frames
C5_Witness ==
    \E o \in Ops :
        /\ op[o] = "push" /\ streams[o] # <<>>
        /\ Len(Sent(Cur(streams[o]))) = 3
        /\ Len(Payload(Cur(streams[o]))) = 2

\* C6: every locality-dependent decision of an operation uses the is_local
\* its wrapper looked up, whatever other operations start meanwhile; a pull
\* never sends the destination path and then unpacks, and never omits it
\* and then awaits the single terminal response.
C6_LocalityFixed ==
    \A o \in Ops :
        /\ \A k \in DOMAIN hist[o].reads : hist[o].reads[k] = hist[o].lookup
        /\ (op[o] = "pull" /\ Len(hist[o].reads) = 2) =>
               (locals[o].request.val = dest_path) = ~hist[o].unpacked

\* C7: an install of a str bundle without scheme that names no existing
\* entry fails with the domain error, before any stream is opened and
\* before any frame is sent.
C7_MissingBundle ==
    \A o \in Ops :
        (op[o] = "install" /\ IsPathBundle(args[o].bundle)
            /\ args[o].bundle.path \notin Existing) =>
                /\ streams[o] = <<>>
                /\ pc[o] = "done"
                /\ outcome[o] = DomainError

\* C8: a push or add_media with a source path that does not exist fails
\* with the domain error before it opens its stream: no stream-open and no
\* frame send occurs in such a call.
C8_MissingSourcePath ==
    \A o \in Ops :
        (op[o] \in {"push", "add_media"} /\ SomeMissing(args[o].paths)) =>
            /\ streams[o] = <<>>
            /\ pc[o] = "done" => outcome[o] = DomainError

\* C9: every stream an operation opens is closed exactly once on every exit
\* path (return, failed send, failed end or receive, failure of the frame
\* source, cancellation); no stream is open once the caller has the result
\* or the error.
C9_StreamsClosedOnce ==
    \A o \in Ops :
        \A k \in DOMAIN streams[o] :
            /\ streams[o][k].closes <= 1
            /\ streams[o][k].open = (streams[o][k].closes = 0)
            /\ pc[o] = "done" => streams[o][k].closes = 1

\* an operation was cancelled, and another failed at its frame source,
\* after frames were sent on its stream
C9_Witness ==
    \E o \in Ops :
        /\ pc[o] = "done" /\ outcome[o] = "CancelledError"
        /\ streams[o] # <<>> /\ Count(Cur(streams[o]), "send") >= 1

\* C10: a pull sends exactly one request frame and ends the stream before
\* it receives anything; a request that names the destination path is
\* followed by exactly one terminal receive and no unpack, a request
\* without it by the unpack of the incoming chunks.
C10_PullProtocol ==
    \A o \in Ops :
        op[o] = "pull" =>
            /\ \A k \in DOMAIN streams[o] :
                   LET s == streams[o][k]
                   IN  /\ Count(s, "send") <= 1
                       /\ \A i \in At(s, "send") : s.log[i].kind = "PullRequest"
                       /\ \A e \in At(s, "end") : \E x \in At(s, "send") : x < e
                       /\ \A r \in At(s, "recv") : \E e \in At(s, "end") : e < r
            /\ Len(hist[o].reads) = 2 =>
                   IF locals[o].request.val = dest_path
                   THEN /\ ~hist[o].unpacked
                        /\ Succeeded(o) => Count(Cur(streams[o]), "recv") = 1
                   ELSE hist[o].unpacked

\* C11: a hid call over a finite event sequence sends one frame per event
\* in input order, signals end-of-stream once after the last frame, and
\* then performs exactly one receive on the stream; no second receive.
C11_HidSingleReceive ==
    \A o \in Ops :
        (op[o] = "hid" /\ Succeeded(o)) =>
            LET s == Cur(streams[o])
                events == args[o].events
            IN  /\ Sent(s) = [k \in 1..Len(events) |-> Event("send", "HIDEvent", events[k])]
                /\ Count(s, "end") = 1
                /\ \A e \in At(s, "end") : \A x \in At(s, "send") : x < e
                /\ Count(s, "recv") = 1

\* the frames a push or add_media has sent when the send of frame i of its
\* file_path loop is reached
SentBefore(o, i) ==
    (IF op[o] = "push"
     THEN <<Event("send", "Metadata", bundle_id \o ":" \o dest_path)>> ELSE <<>>)
    \o [k \in 1..(i - 1) |-> Event("send", "PathRef", args[o].paths[k])]

\* C12: in push and add_media against a local companion, when the send of
\* the Nth frame fails no later frame is sent, end-of-stream is not
\* signalled, no terminal receive is performed, the failed frame is not
\* sent again, and the call ends in failure.
C12_FailFast ==
    \A o \in Ops :
        (/\ op[o] \in {"push", "add_media"} /\ pc[o] = "done"
         /\ hist[o].raised \in TransportErrors
         /\ hist[o].at \in {"send_meta", "send_path"}) =>
            LET s == Cur(streams[o])
            IN  /\ outcome[o] # "ok"
                /\ Count(s, "end") = 0
                /\ Count(s, "recv") = 0
                /\ Sent(s) = IF hist[o].at = "send_meta" THEN <<>>
                             ELSE SentBefore(o, locals[o].i)

\* the send of the second file_path frame of a push failed
C12_Witness ==
    \E o \in Ops :
        /\ op[o] = "push" /\ pc[o] = "done"
        /\ hist[o].raised = "GRPCError" /\ hist[o].at = "send_path"
        /\ locals[o].i = 2 /\ Len(args[o].paths) = 2

\* C13: a successful push against a local companion with source paths
\* p1..pn sends exactly the Metadata frame (bundle id and destination path)
\* followed by n PathRef frames carrying p1..pn in that order, and no
\* DataChunk frame.
C13_PushLocalFrames ==
    \A o \in Ops :
        (op[o] = "push" /\ Succeeded(o) /\ hist[o].reads = <<TRUE>>) =>
            /\ Len(streams[o]) = 1
            /\ Sent(streams[o][1]) =
                   <<Event("send", "Metadata", "com.app:/dst")>>
                   \o [k \in 1..Len(args[o].paths) |->
                          Event("send", "PathRef", args[o].paths[k])]

\* a push of two different paths to a local companion has succeeded
C13_Witness ==
    \E o \in Ops :
        /\ op[o] = "push" /\ Succeeded(o) /\ hist[o].reads = <<TRUE>>
        /\ Len(args[o].paths) = 2 /\ args[o].paths[1] # args[o].paths[2]

\* C14: a push or add_media with an empty list of source paths against a
\* local companion raises no error of its own: it opens its stream, sends
\* only the frames that do not depend on the paths (push: the Metadata
\* frame; add_media: none), signals end-of-stream and reads the terminal
\* response exactly once.
C14_EmptyPathList ==
    \A o \in Ops :
        (/\ op[o] \in {"push", "add_media"} /\ args[o].paths = <<>>
         /\ pc[o] = "done" /\ hist[o].reads = <<TRUE>>) =>
            /\ outcome[o] \in {"ok"} \cup Exceptions
            /\ hist[o].raised = "" =>
                   /\ outcome[o] = "ok"
                   /\ Len(streams[o]) = 1
                   /\ streams[o][1].log =
                          (IF op[o] = "push"
                           THEN <<Event("send", "Metadata", "com.app:/dst")>> ELSE <<>>)
                          \o <<Event("end", "", ""), Event("recv", "response", "")>>

\* an add_media of no paths to a local companion has succeeded
C14_Witness ==
    \E o \in Ops :
        /\ op[o] = "add_media" /\ args[o].paths = <<>>
        /\ Succeeded(o) /\ hist[o].reads = <<TRUE>>

\* C15: contacts_update follows the transfer skeleton of the other
\* operations: it consults the companion locality, opens a stream, and
\* sends its frames through the drain (frames, end-of-stream, exactly one
\* terminal receive).
C15_ContactsUpdateSkeleton ==
    \A o \in Ops :
        (op[o] = "contacts_update" /\ Succeeded(o)) =>
            /\ Len(hist[o].reads) >= 1
            /\ Len(streams[o]) = 1
            /\ Count(streams[o][1], "send") >= 1
            /\ Count(streams[o][1], "end") = 1
            /\ Count(streams[o][1], "recv") = 1

\* C16: approve with a permission name outside {photos, camera, contacts}
\* fails with the InvalidArgument domain error and sends no approve request;
\* when every name is recognized exactly one request is sent, carrying one
\* mapped value per permission.
C16_ApproveInvalidArgument ==
    \A o \in Ops :
        (op[o] = "approve" /\ pc[o] = "done" /\ hist[o].raised \notin Exceptions) =>
            IF args[o].permissions \subseteq {"photos", "camera", "contacts"}
            THEN /\ outcome[o] = "ok"
                 /\ Len(hist[o].requests) = 1
                 /\ hist[o].requests[1].permissions =
                        { APPROVE_MAP[p] : p \in args[o].permissions }
                 /\ Cardinality(hist[o].requests[1].permissions) =
                        Cardinality(args[o].permissions)
            ELSE /\ outcome[o] = DomainError
                 /\ hist[o].requests = <<>>

\* C17: a single call of tap, button, key, text, swipe, key_sequence or
\* send_events performs exactly one companion lookup and creates exactly one
\* channel.
C17_OneLookupPerCall ==
    \A o \in Ops :
        (op[o] \in HidWrappers \cup {"send_events"} /\ pc[o] # "idle") =>
            /\ wrapped[o].lookups = 1
            /\ wrapped[o].channels = 1

\* C19: channels do not accumulate: whenever no operation is running, at
\* most one channel made by the wrappers is not closed.
C19_ChannelsBounded ==
    (\A o \in Ops : pc[o] \in {"idle", "done"}) => unclosed <= 1

C18_InScope(o) ==
    \/ op[o] \in {"install", "push", "add_media", "hid"}
    \/ op[o] = "pull" /\ ~hist[o].unpacked

\* C18: with a companion that accepts every frame and sends exactly one
\* terminal response after end-of-stream and nothing further, every install,
\* push, add_media, local pull and hid call eventually returns to its
\* caller.
C18_Termination ==
    \A o \in Ops :
        (C18_InScope(o) /\ pc[o] \notin {"idle", "done"})
            ~> (pc[o] \in {"idle", "done"} \/ ~C18_InScope(o))

\* C20: under any interleaving of concurrent provide_client calls, the
\* daemon channel and the daemon stub are made at most once, and every
\* CompanionClient returned carries that same stub and is_local = true.
C20_DaemonStubOnce ==
    /\ Cardinality(daemon_made) <= 1
    /\ daemon_made = {} <=> daemon_stub = "None"
    /\ daemon_channel = daemon_stub
    /\ \A c \in Callers :
           provided[c] # NoClient =>
               /\ provided[c].stub = daemon_stub
               /\ provided[c].stub # "None"
               /\ provided[c].is_local = TRUE

\* two calls that were suspended together have both returned a client, the
\* stub made by the call that resumed first, while a third is suspended
C20_Witness ==
    \E c1, c2, c3 \in Callers :
        /\ c1 # c2 /\ c3 \notin {c1, c2}
        /\ ppc[c1] = "done" /\ ppc[c2] = "done" /\ ppc[c3] = "start_daemon"
        /\ provided[c1].stub = c1 /\ provided[c2].stub = c1
        /\ daemon_made = {c1}

====
